---- MODULE Spec2Model ----
(***************************************************************************)
(* Model of go-httputils: Handler (router facade, Serve lifecycle with      *)
(* graceful shutdown), Timer (latency recorder) and OkHandler.              *)
(*                                                                          *)
(* Time is discrete.  A path is a sequence of one-character strings, a      *)
(* path template a sequence of characters in which the token VAR stands    *)
(* for a mux variable such as {id} (regexp [^/]+).                          *)
(***************************************************************************)
EXTENDS Naturals, Integers, Sequences, FiniteSets, Bags, TLC

(* ------------------------------ bounds --------------------------------- *)
\* routes the caller registers before Serve(), requests the clients send
\* (routing behaviours, RouteSpec)
MaxRoutes == 2
MaxReq == 2
\* the same for the lifecycle behaviours (Spec)
LifeRoutes == 1
LifeReq == 1
\* longest run time of a user handler, in ticks
MaxDur == 1
\* largest grace duration the caller sets, in ticks
MaxGrace == 2
\* Serve() calls on one Handler (restart behaviours, RestartSpec)
MaxServe == 2

(* ------------------------- program constants --------------------------- *)
\* gracefulShutdownDuration: 2 * time.Second
DefaultGrace == 2

VAR == "{id}"
SLASH == "/"

PathUp == <<"/", "u", "p">>
PathHealth == <<"/", "_", "h", "e", "a", "l", "t", "h">>
PathHealthz == <<"/", "_", "h", "e", "a", "l", "t", "h", "z">>
PathA == <<"/", "a">>
PathAB == <<"/", "a", "b">>
PathASlashB == <<"/", "a", "/", "b">>
TplAId == <<"/", "a", "/", VAR>>

\* the three default health paths of registerDefaultRoutes
DefaultPaths == {PathHealthz, PathHealth, PathUp}

\* templates the caller registers, paths the clients request
Templates == {PathUp, PathA, TplAId}
ReqPaths == {PathUp, PathHealth, PathHealthz, PathAB, PathASlashB}
\* the same for the lifecycle behaviours
LifeTemplates == {PathA}
LifePaths == {PathAB}

(* ------------------------------ router --------------------------------- *)
\* mux regexp of a template: literal characters, VAR = one or more non-slash
\* characters; anchored at both ends for Path(), at the start only for
\* PathPrefix().
RECURSIVE TplMatch(_, _, _)
TplMatch(tpl, path, prefix) ==
    IF tpl = << >> THEN prefix \/ path = << >>
    ELSE IF Head(tpl) = VAR
         THEN \E k \in 1..Len(path) :
                 /\ \A i \in 1..k : path[i] # SLASH
                 /\ TplMatch(Tail(tpl), SubSeq(path, k + 1, Len(path)), prefix)
         ELSE /\ path # << >>
              /\ Head(path) = Head(tpl)
              /\ TplMatch(Tail(tpl), Tail(path), prefix)

\* Route.Match for a route built by router.Handle(path, ..) (mode "path") or
\* router.PathPrefix(prefix).Handler(..) (mode "prefix")
RouteMatches(rt, path) == TplMatch(rt.tpl, path, rt.mode = "prefix")

\* Route.GetPathTemplate: the template the route was registered with
GetPathTemplate(rt) == rt.tpl

\* a faulty variant: the router serves the last registered matching route
LastMatch(rts, path) ==
    LET hits == {i \in 1..Len(rts) : RouteMatches(rts[i], path)}
    IN IF hits = {} THEN 0 ELSE CHOOSE i \in hits : \A j \in hits : j <= i

\* Router.Match: the routes are tried in registration order, the first that
\* matches serves the request; 0 when none matches (NotFoundHandler)
FirstMatch(rts, path) ==
    LET hits == {i \in 1..Len(rts) : RouteMatches(rts[i], path)}
    IN IF hits = {} THEN 0 ELSE CHOOSE i \in hits : \A j \in hits : i <= j

\* Router.Match for a request: no route of this facade carries a method
\* matcher, so the method takes no part
Match(rts, path, method) == FirstMatch(rts, path)

(* ------------------------------- state --------------------------------- *)
VARIABLES
    routes,      \* h.router: the routes in registration order
    grace,       \* h.gracefulShutdownDuration
    ctxDone,     \* h.ctx is cancelled
    servePc,     \* where Serve() stands
    inShutdown,  \* h.server: Shutdown() was called
    dleft,       \* ticks until shutdownCtx expires; -1: no shutdownCtx yet
    graceUsed,   \* the timeout shutdownCtx was built with; -1: none yet
    primPc,      \* the goroutine running h.server.ListenAndServe()
    primErr,     \* what h.server.ListenAndServe() returned
    primBound,   \* the primary listener holds its address
    metPc,       \* the goroutine running the metrics server
    metErr,      \* what the metrics ListenAndServe() returned
    proc,        \* "running", or "exited" after logger.Fatalf
    fatalBy,     \* which Fatalf ended the process
    shutErr,     \* what h.server.Shutdown returned
    req,         \* the requests of the primary listener
    hist,        \* httpDuration: a bag of <<label, observed ticks>>
    setBefore,   \* history: d of the last SetGracefulShutdownDuration(d) before Serve(), -1: none
    setDuring,   \* history: SetGracefulShutdownDuration ran between Serve() starting and the deadline being computed
    calls,       \* the calls of OkHandler.ServeHTTP and Timer.ServeHTTP made outside a Handler
    old          \* the goroutines left by earlier Serve() calls: [prim, met]

vars == <<routes, grace, ctxDone, servePc, inShutdown, dleft, graceUsed,
          primPc, primErr, primBound, metPc, metErr, proc, fatalBy, shutErr,
          req, hist, setBefore, setDuring, calls, old>>

lifeVars == <<ctxDone, servePc, inShutdown, dleft, graceUsed, proc, fatalBy,
              shutErr>>
primVars == <<primPc, primErr, primBound>>
metVars == <<metPc, metErr>>
histVars == <<setBefore, setDuring>>
outVars == <<calls, old>>

ReqIds == 1..Len(req)
Methods == {"GET", "POST"}

\* NewHandlerWithContext: nothing is started
Init ==
    /\ routes = << >>
    /\ grace = DefaultGrace
    /\ ctxDone = FALSE
    /\ servePc = "init"
    /\ inShutdown = FALSE
    /\ dleft = -1
    /\ graceUsed = -1
    /\ primPc = "none"
    /\ primErr = "nil"
    /\ primBound = FALSE
    /\ metPc = "none"
    /\ metErr = "nil"
    /\ proc = "running"
    /\ fatalBy = "none"
    /\ shutErr = "nil"
    /\ req = << >>
    /\ hist = EmptyBag
    /\ setBefore = -1
    /\ setDuring = FALSE
    /\ calls = << >>
    /\ old = << >>

Alive == proc = "running"

Active(r) == req[r].state = "active"

\* logger.Fatalf ends in os.Exit(1): the process is gone with all it held
\* (handler, router, goroutines, requests in flight, histogram); what is left
\* is the exit, its cause and the error that was logged
Fatalf(by, perr, merr, serr) ==
    /\ proc' = "exited"
    /\ fatalBy' = by
    /\ primErr' = perr
    /\ metErr' = merr
    /\ shutErr' = serr
    /\ routes' = << >>
    /\ grace' = 0
    /\ ctxDone' = FALSE
    /\ servePc' = "gone"
    /\ inShutdown' = FALSE
    /\ dleft' = -1
    /\ graceUsed' = -1
    /\ primPc' = "gone"
    /\ primBound' = FALSE
    /\ metPc' = "gone"
    /\ req' = << >>
    /\ hist' = EmptyBag
    /\ setBefore' = -1
    /\ setDuring' = FALSE
    /\ calls' = << >>
    /\ old' = << >>

(* --------------------------- configuration ----------------------------- *)
\* a faulty variant: the setter drops its argument
SetGraceIgnored(d) ==
    /\ Alive
    /\ grace' = grace
    /\ setBefore' = IF servePc = "init" THEN d ELSE setBefore
    /\ setDuring' = (setDuring \/ servePc = "waitCtx")
    /\ UNCHANGED <<routes, lifeVars, primVars, metVars, req, hist, outVars>>

SetGracefulShutdownDuration(d) ==
    /\ Alive
    /\ grace' = d
    /\ setBefore' = IF servePc = "init" THEN d ELSE setBefore
    /\ setDuring' = (setDuring \/ servePc = "waitCtx")
    /\ UNCHANGED <<routes, lifeVars, primVars, metVars, req, hist, outVars>>

\* NewTimer(h.logger, handler) registered with router.Handle(path, ..)
Handle(tpl) ==
    /\ Alive /\ servePc = "init"
    /\ routes' = Append(routes, [mode |-> "path", tpl |-> tpl, wrap |-> "timer"])
    /\ UNCHANGED <<grace, lifeVars, primVars, metVars, req, hist, histVars, outVars>>

\* NewTimer(h.logger, handler) registered with router.PathPrefix(prefix)
HandlePrefix(tpl) ==
    /\ Alive /\ servePc = "init"
    /\ routes' = Append(routes, [mode |-> "prefix", tpl |-> tpl, wrap |-> "timer"])
    /\ UNCHANGED <<grace, lifeVars, primVars, metVars, req, hist, histVars, outVars>>

\* http.HandlerFunc(f) handed to Handle
HandleFunc(tpl) == Handle(tpl)

\* http.HandlerFunc(f) handed to HandlePrefix
HandleFuncPrefix(tpl) == HandlePrefix(tpl)

\* h.okHandler registered bare, without a Timer
AddOkHandler(tpl) ==
    /\ Alive /\ servePc = "init"
    /\ routes' = Append(routes, [mode |-> "path", tpl |-> tpl, wrap |-> "ok"])
    /\ UNCHANGED <<grace, lifeVars, primVars, metVars, req, hist, histVars, outVars>>

(* ------------------------------- Serve --------------------------------- *)
\* a faulty variant: /up is left out of the default routes
DefaultRoutesWithoutUp ==
    << [mode |-> "path", tpl |-> PathHealthz, wrap |-> "ok"],
       [mode |-> "path", tpl |-> PathHealth, wrap |-> "ok"] >>

\* registerDefaultRoutes: three routes to h.okHandler, appended to the router
registerDefaultRoutes ==
    << [mode |-> "path", tpl |-> PathHealthz, wrap |-> "ok"],
       [mode |-> "path", tpl |-> PathHealth, wrap |-> "ok"],
       [mode |-> "path", tpl |-> PathUp, wrap |-> "ok"] >>

\* Serve(), up to the wait for h.ctx: default routes, the recovery wrapper as
\* the server's handler, and the two goroutines
ServeStart ==
    /\ Alive /\ servePc = "init"
    /\ routes' = routes \o registerDefaultRoutes
    /\ servePc' = "waitCtx"
    /\ primPc' = "spawned"
    /\ metPc' = "spawned"
    /\ UNCHANGED <<grace, ctxDone, inShutdown, dleft, graceUsed, proc, fatalBy,
                   shutErr, primErr, primBound, metErr, req, hist, histVars, outVars>>

\* the cancellation source fires (a signal, or the caller's cancel)
Cancel ==
    /\ Alive /\ ~ctxDone
    /\ ctxDone' = TRUE
    /\ req' = [r \in ReqIds |->
                 IF Active(r) THEN [req[r] EXCEPT !.remAtCancel = req[r].rem]
                 ELSE req[r]]
    /\ UNCHANGED <<routes, grace, servePc, inShutdown, dleft, graceUsed, proc,
                   fatalBy, shutErr, primVars, metVars, hist, histVars, outVars>>

\* a faulty variant: Serve() does not wait for h.ctx
CancelObservedAlways == TRUE

\* <-h.ctx.Done()
CancelObserved == ctxDone

\* a faulty variant: the shutdown context is built with no time at all
NoTimeout(d) == 0

\* context.WithTimeout(context.Background(), h.gracefulShutdownDuration)
ShutdownTimeout(d) == d

\* a faulty variant: the timeout is the grace duration Serve() was called with
ServeShutdownBeginWithGraceAtStart ==
    /\ Alive /\ servePc = "waitCtx"
    /\ CancelObserved
    /\ graceUsed' = IF setBefore = -1 THEN DefaultGrace ELSE setBefore
    /\ dleft' = ShutdownTimeout(graceUsed')
    /\ inShutdown' = TRUE
    /\ servePc' = "shutdownPoll"
    /\ UNCHANGED <<routes, grace, ctxDone, proc, fatalBy, shutErr, primVars,
                   metVars, req, hist, histVars, outVars>>

\* Serve() wakes on h.ctx, builds shutdownCtx from the grace field as it is
\* now, and enters h.server.Shutdown: the listener is closed
ServeShutdownBegin ==
    /\ Alive /\ servePc = "waitCtx"
    /\ CancelObserved
    /\ graceUsed' = grace
    /\ dleft' = ShutdownTimeout(grace)
    /\ inShutdown' = TRUE
    /\ servePc' = "shutdownPoll"
    /\ UNCHANGED <<routes, grace, ctxDone, proc, fatalBy, shutErr, primVars,
                   metVars, req, hist, histVars, outVars>>

\* Server.Shutdown's closeIdleConns: every connection is idle
AllIdle == \A r \in ReqIds : ~Active(r)

\* Server.Shutdown polls: connections still busy, it waits for the context or
\* the poll timer
ShutdownPollBusy ==
    /\ Alive /\ servePc = "shutdownPoll"
    /\ ~AllIdle
    /\ servePc' = "shutdownWait"
    /\ UNCHANGED <<routes, grace, ctxDone, inShutdown, dleft, graceUsed, proc,
                   fatalBy, shutErr, primVars, metVars, req, hist, histVars, outVars>>

\* Server.Shutdown polls: all connections idle, it returns nil and Serve()
\* goes on to <-shutdownCtx.Done()
ShutdownPollIdle ==
    /\ Alive /\ servePc = "shutdownPoll"
    /\ AllIdle
    /\ servePc' = "waitDeadline"
    /\ UNCHANGED <<routes, grace, ctxDone, inShutdown, dleft, graceUsed, proc,
                   fatalBy, shutErr, primVars, metVars, req, hist, histVars, outVars>>

\* Server.Shutdown polls: all connections idle, but closing the listener had
\* failed; it returns that error and Serve() calls logger.Fatalf.  The
\* listener is closed once: a Shutdown of a later Serve() call has none to
\* close
ShutdownCloseError ==
    /\ Alive /\ servePc = "shutdownPoll"
    /\ AllIdle
    /\ primBound
    /\ old = << >>
    /\ Fatalf("shutdown", primErr, metErr, "closeError")

\* the poll timer of Server.Shutdown fires
ShutdownTimer ==
    /\ Alive /\ servePc = "shutdownWait"
    /\ servePc' = "shutdownPoll"
    /\ UNCHANGED <<routes, grace, ctxDone, inShutdown, dleft, graceUsed, proc,
                   fatalBy, shutErr, primVars, metVars, req, hist, histVars, outVars>>

\* shutdownCtx expires inside Server.Shutdown: it returns ctx.Err() and
\* Serve() calls logger.Fatalf
ShutdownDeadline ==
    /\ Alive /\ servePc = "shutdownWait"
    /\ dleft = 0
    /\ Fatalf("shutdown", primErr, metErr, "DeadlineExceeded")

\* a faulty variant: Serve() stops the metrics server as well before it returns
ServeReturnStoppingMetrics ==
    /\ Alive /\ servePc = "waitDeadline"
    /\ dleft = 0
    /\ servePc' = "returned"
    /\ metPc' = "exited"
    /\ metErr' = "ErrServerClosed"
    /\ UNCHANGED <<routes, grace, ctxDone, inShutdown, dleft, graceUsed, proc,
                   fatalBy, shutErr, primVars, req, hist, histVars, outVars>>

\* <-shutdownCtx.Done() after a clean Shutdown: cancel() is deferred, so the
\* context is done only when its timeout has run out
ServeReturn ==
    /\ Alive /\ servePc = "waitDeadline"
    /\ dleft = 0
    /\ servePc' = "returned"
    /\ UNCHANGED <<routes, grace, ctxDone, inShutdown, dleft, graceUsed, proc,
                   fatalBy, shutErr, primVars, metVars, req, hist, histVars, outVars>>

(* --------------------------- the listeners ----------------------------- *)
\* a faulty variant: the closed-server error is not told apart
AnyErrorIsFatal(err) == err # "nil"

\* err != nil && err != http.ErrServerClosed
PrimaryIsFatal(err) == err # "nil" /\ err # "ErrServerClosed"

\* err != nil, the test of the metrics goroutine
MetricsIsFatal(err) == err # "nil"

\* the goroutine's test of what ListenAndServe returned: Fatalf, or it ends
PrimaryReturns(err, bound) ==
    IF PrimaryIsFatal(err)
    THEN Fatalf("primary", err, metErr, shutErr)
    ELSE /\ primPc' = "exited"
         /\ primErr' = err
         /\ primBound' = bound
         /\ UNCHANGED <<routes, grace, lifeVars, metVars, req, hist, histVars, outVars>>

\* h.server.ListenAndServe() starts: a server already shut down returns
\* ErrServerClosed at once
PrimaryEnter ==
    /\ Alive /\ primPc = "spawned"
    /\ IF inShutdown
       THEN PrimaryReturns("ErrServerClosed", primBound)
       ELSE /\ primPc' = "binding"
            /\ UNCHANGED <<routes, grace, lifeVars, primErr, primBound, metVars,
                           req, hist, histVars, outVars>>

\* net.Listen succeeds; Server.Serve refuses a listener once shutting down
PrimaryBind ==
    /\ Alive /\ primPc = "binding"
    /\ IF inShutdown
       THEN PrimaryReturns("ErrServerClosed", TRUE)
       ELSE /\ primPc' = "serving"
            /\ primBound' = TRUE
            /\ UNCHANGED <<routes, grace, lifeVars, primErr, metVars, req, hist,
                           histVars, outVars>>

\* net.Listen fails (address in use, no permission)
PrimaryBindFail ==
    /\ Alive /\ primPc = "binding"
    /\ PrimaryReturns("listenError", primBound)

\* the accept loop ends: ErrServerClosed when Shutdown closed the listener,
\* the accept error otherwise
PrimaryServeEnd ==
    /\ Alive /\ primPc = "serving"
    /\ PrimaryReturns(IF inShutdown THEN "ErrServerClosed" ELSE "acceptError",
                      primBound)

\* no metrics server of this process holds the address metricsListen
MetricsAddrFree ==
    /\ metPc # "serving"
    /\ \A i \in 1..Len(old) : old[i].met # "serving"

\* the metrics server binds metricsListen and serves promhttp.Handler()
MetricsListen ==
    /\ Alive /\ metPc = "spawned"
    /\ MetricsAddrFree
    /\ metPc' = "serving"
    /\ UNCHANGED <<routes, grace, lifeVars, primVars, metErr, req, hist, histVars, outVars>>

\* the metrics ListenAndServe returns: it is never shut down, so with an
\* error, and the goroutine tests it
MetricsFail ==
    /\ Alive /\ metPc \in {"spawned", "serving"}
    /\ LET err == IF metPc = "spawned" THEN "listenError" ELSE "acceptError"
       IN IF MetricsIsFatal(err)
          THEN Fatalf("metrics", primErr, err, shutErr)
          ELSE /\ metPc' = "exited"
               /\ metErr' = err
               /\ UNCHANGED <<routes, grace, lifeVars, primVars, req, hist, histVars, outVars>>

(* ------------------------- a further Serve() --------------------------- *)
\* a faulty variant: the further call serves with a server of its own
ServeAgainWithFreshServer ==
    /\ Alive /\ servePc = "returned"
    /\ routes' = routes \o registerDefaultRoutes
    /\ servePc' = "waitCtx"
    /\ old' = Append(old, [prim |-> primPc, met |-> metPc])
    /\ primPc' = "spawned"
    /\ metPc' = "spawned"
    /\ inShutdown' = FALSE
    /\ UNCHANGED <<grace, ctxDone, dleft, graceUsed, proc, fatalBy,
                   shutErr, primErr, primBound, metErr, req, hist, histVars,
                   calls>>

\* Serve() called again after it returned: the same router, the same
\* h.server, which stays shut down, the same cancelled h.ctx, and two new
\* goroutines next to those the earlier call left
ServeAgain ==
    /\ Alive /\ servePc = "returned"
    /\ routes' = routes \o registerDefaultRoutes
    /\ servePc' = "waitCtx"
    /\ old' = Append(old, [prim |-> primPc, met |-> metPc])
    /\ primPc' = "spawned"
    /\ metPc' = "spawned"
    /\ UNCHANGED <<grace, ctxDone, inShutdown, dleft, graceUsed, proc, fatalBy,
                   shutErr, primErr, primBound, metErr, req, hist, histVars,
                   calls>>

\* the primary goroutine of an earlier Serve() call goes on: its
\* ListenAndServe fails to listen, or returns ErrServerClosed since h.server
\* is shut down
OldPrimaryStep(i, err) ==
    /\ Alive /\ i \in 1..Len(old)
    /\ old[i].prim \in {"spawned", "binding", "serving"}
    /\ err = "listenError" => old[i].prim = "binding"
    /\ IF PrimaryIsFatal(err)
       THEN Fatalf("primary", err, metErr, shutErr)
       ELSE /\ old' = [old EXCEPT ![i].prim = "exited"]
            /\ UNCHANGED <<routes, grace, lifeVars, primVars, metVars, req, hist,
                           histVars, calls>>

\* the metrics goroutine of an earlier Serve() call binds
OldMetricsListen(i) ==
    /\ Alive /\ i \in 1..Len(old)
    /\ old[i].met = "spawned"
    /\ MetricsAddrFree
    /\ old' = [old EXCEPT ![i].met = "serving"]
    /\ UNCHANGED <<routes, grace, lifeVars, primVars, metVars, req, hist,
                   histVars, calls>>

\* the metrics ListenAndServe of an earlier Serve() call returns its error
OldMetricsFail(i) ==
    /\ Alive /\ i \in 1..Len(old)
    /\ old[i].met \in {"spawned", "serving"}
    /\ LET err == IF old[i].met = "spawned" THEN "listenError" ELSE "acceptError"
       IN /\ MetricsIsFatal(err)
          /\ Fatalf("metrics", primErr, err, shutErr)

(* ----------------------------- requests -------------------------------- *)
\* a faulty variant: the histogram is labelled with the raw request path
RawPathLabel(rt, path) == path

\* Timer.ServeHTTP: mux.CurrentRoute(r).GetPathTemplate()
TimerLabel(rt, path) == GetPathTemplate(rt)

\* a faulty variant: no recovery handler, net/http drops the connection
NoRecovery(res) ==
    IF res.panicked THEN [status |-> 0, body |-> ""]
    ELSE [status |-> res.status, body |-> res.body]

\* wrapHandlers: handlers.RecoveryHandler answers a panic with status 500
wrapHandlers(res) ==
    IF res.panicked THEN [status |-> 500, body |-> ""]
    ELSE [status |-> res.status, body |-> res.body]

\* a faulty variant: a failed write makes the handler panic
OkHandlerPanicsOnWriteError(writeOk) ==
    [panicked |-> ~writeOk, status |-> 200,
     body |-> IF writeOk THEN "ok" ELSE "", log |-> ""]

\* OkHandler.ServeHTTP: fmt.Fprintf(rw, "ok"); a write error is logged with
\* Debugf and the handler returns
OkHandlerServeHTTP(writeOk) ==
    [panicked |-> FALSE, status |-> 200,
     body |-> IF writeOk THEN "ok" ELSE "",
     log |-> IF writeOk THEN "" ELSE "debug"]

\* the request was routed to a handler registered through Handle or
\* HandlePrefix, which sits behind a Timer
UserHandled(rq) == rq.route # 0 /\ routes[rq.route].wrap = "timer"

\* what the router's handler does with a request: the NotFoundHandler, the
\* OkHandler, or the user handler behind its Timer
RouterResult(rq, plan) ==
    IF rq.route = 0 THEN [panicked |-> FALSE, status |-> 404, body |-> "404"]
    ELSE IF routes[rq.route].wrap = "ok"
         THEN LET ok == OkHandlerServeHTTP(TRUE)
              IN [panicked |-> ok.panicked, status |-> ok.status, body |-> ok.body]
         ELSE IF plan = "panic"
              THEN [panicked |-> TRUE, status |-> 0, body |-> ""]
              ELSE [panicked |-> FALSE, status |-> 200, body |-> "user"]

\* a faulty variant: the Timer is put around the recovery handler
TimerOutsideRecovery(rt) ==
    IF rt = 0 THEN <<"recovery", "notfound">>
    ELSE IF routes[rt].wrap = "ok" THEN <<"recovery", "ok">>
         ELSE <<"timer", "recovery", "user">>

\* the handlers a request passes, outermost first: the RecoveryHandler that
\* wrapHandlers puts around the router, then what the matched route holds,
\* which for Handle and HandlePrefix is NewTimer(h.logger, handler)
HandlerChain(rt) ==
    IF rt = 0 THEN <<"recovery", "notfound">>
    ELSE IF routes[rt].wrap = "ok" THEN <<"recovery", "ok">>
         ELSE <<"recovery", "timer", "user">>

\* the calls and returns of one request through a chain of handlers: each
\* handler is entered, calls the next one once, and is left; a panic of the
\* user handler unwinds the Timer before its ObserveDuration and is caught by
\* the RecoveryHandler
RECURSIVE ChainTrace(_, _)
ChainTrace(chain, plan) ==
    IF chain = << >> THEN << >>
    ELSE LET h == Head(chain)
             inner == ChainTrace(Tail(chain), plan)
         IN IF Tail(chain) = << >>
            THEN << <<"enter", h>>,
                    <<IF h = "user" /\ plan = "panic" THEN "panic" ELSE "leave", h>> >>
            ELSE << <<"enter", h>> >> \o inner \o
                 (IF h = "recovery" THEN << <<"leave", h>> >>
                  ELSE IF inner[Len(inner)][1] = "panic" THEN << <<"panic", h>> >>
                  ELSE << <<"observe", h>>, <<"leave", h>> >>)

\* a faulty variant: ObserveDuration is deferred and runs on a panic as well
ObserveDeferred(h, rq, plan) ==
    IF UserHandled(rq)
    THEN h (+) SetToBag({<<TimerLabel(routes[rq.route], rq.path), rq.dur - rq.rem>>})
    ELSE h

\* timer.ObserveDuration(): reached only for a Timer whose handler returned
Observe(h, rq, plan) ==
    IF LET tr == ChainTrace(HandlerChain(rq.route), plan)
       IN \E i \in 1..Len(tr) : tr[i] = <<"observe", "timer">>
    THEN h (+) SetToBag({<<TimerLabel(routes[rq.route], rq.path), rq.dur - rq.rem>>})
    ELSE h

\* a faulty variant: Shutdown leaves the accept loop running
AcceptingWhileShutdown == primPc = "serving"

\* the accept loop of h.server runs and Shutdown has not closed the listener
Accepting == primPc = "serving" /\ ~inShutdown

\* the primary server accepts a request and routes it; the handler starts and
\* will run dur ticks (the OkHandler and the NotFoundHandler take none)
Accept(path, method, dur) ==
    /\ Alive /\ Accepting
    /\ LET rt == Match(routes, path, method)
       IN /\ (rt = 0 \/ routes[rt].wrap = "ok") => dur = 0
          /\ req' = Append(req,
                       [state |-> "active", path |-> path, route |-> rt,
                        dur |-> dur, rem |-> dur, plan |-> "",
                        status |-> 0, body |-> "", remAtCancel |-> -1,
                        trace |-> << >>])
    /\ UNCHANGED <<routes, grace, lifeVars, primVars, metVars, hist, histVars, outVars>>

\* the handler chain of a request ends, the user handler by returning or by
\* panicking: observation, response
Finish(r, plan) ==
    /\ Alive /\ Active(r) /\ req[r].rem = 0
    /\ plan = "panic" => UserHandled(req[r])
    /\ LET res == wrapHandlers(RouterResult(req[r], plan))
       IN req' = [req EXCEPT ![r].state = "done", ![r].plan = plan,
                             ![r].status = res.status, ![r].body = res.body,
                             ![r].trace = ChainTrace(HandlerChain(req[r].route), plan)]
    /\ hist' = Observe(hist, req[r], plan)
    /\ UNCHANGED <<routes, grace, lifeVars, primVars, metVars, histVars, outVars>>

(* ------------------- the handlers outside a Handler -------------------- *)
\* mux.CurrentRoute(r) of a request that no mux router matched: the nil *Route
NoRoute == [mode |-> "nil", tpl |-> << >>, wrap |-> "timer"]

\* a matched route built without Path or PathPrefix (a host or method route):
\* GetPathTemplate returns "" and an error, which Timer.ServeHTTP drops
NoPathRoute == [mode |-> "nopath", tpl |-> << >>, wrap |-> "timer"]

\* what mux.CurrentRoute(r) can be for a Timer the caller mounts itself
DirectRoutes ==
    {NoRoute, NoPathRoute,
     [mode |-> "path", tpl |-> PathA, wrap |-> "timer"],
     [mode |-> "prefix", tpl |-> TplAId, wrap |-> "timer"]}

\* Timer.ServeHTTP: route.GetPathTemplate() reads the fields of the route, so
\* on the nil route it panics with a nil pointer dereference before the timer
\* is made and before the delegate is called; otherwise the delegate is
\* called once and ObserveDuration runs if it returned
TimerServeHTTP(rt, path, plan) ==
    IF rt.mode = "nil"
    THEN [panicked |-> TRUE, label |-> << >>, delegated |-> 0, observed |-> FALSE]
    ELSE [panicked |-> plan = "panic", label |-> TimerLabel(rt, path),
          delegated |-> 1, observed |-> plan = "return"]

\* a request served by an OkHandler the caller mounted itself
OkDirect(writeOk) ==
    /\ Alive
    /\ LET res == OkHandlerServeHTTP(writeOk)
       IN calls' = Append(calls,
                     [handler |-> "ok", route |-> NoRoute, writeOk |-> writeOk,
                      plan |-> "return", panicked |-> res.panicked,
                      body |-> res.body, log |-> res.log, label |-> << >>,
                      delegated |-> 0, observed |-> FALSE])
    /\ UNCHANGED <<routes, grace, lifeVars, primVars, metVars, req, hist,
                   histVars, old>>

\* a request served by a Timer the caller mounted itself
TimerDirect(rt, path, plan) ==
    /\ Alive
    /\ LET res == TimerServeHTTP(rt, path, plan)
       IN /\ calls' = Append(calls,
                        [handler |-> "timer", route |-> rt, writeOk |-> TRUE,
                         plan |-> plan, panicked |-> res.panicked,
                         body |-> "", log |-> "", label |-> res.label,
                         delegated |-> res.delegated, observed |-> res.observed])
          /\ hist' = IF res.observed
                     THEN hist (+) SetToBag({<<res.label, 0>>})
                     ELSE hist
    /\ UNCHANGED <<routes, grace, lifeVars, primVars, metVars, req, histVars, old>>

(* ------------------------------- time ---------------------------------- *)
\* one tick passes; a handler whose time is up ends first, and a Shutdown
\* waiting on an expired context takes it first
Tick ==
    /\ Alive
    /\ \A r \in ReqIds : Active(r) => req[r].rem > 0
    /\ ~(servePc = "shutdownWait" /\ dleft = 0)
    /\ (\E r \in ReqIds : Active(r)) \/ dleft > 0
    /\ req' = [r \in ReqIds |->
                 IF Active(r) THEN [req[r] EXCEPT !.rem = req[r].rem - 1]
                 ELSE req[r]]
    /\ dleft' = IF dleft > 0 THEN dleft - 1 ELSE dleft
    /\ UNCHANGED <<routes, grace, ctxDone, servePc, inShutdown, graceUsed, proc,
                   fatalBy, shutErr, primVars, metVars, hist, histVars, outVars>>

(* ------------------------------ behaviour ------------------------------ *)
\* the steps of a server that runs undisturbed
Program ==
    \/ ServeStart
    \/ PrimaryEnter
    \/ PrimaryBind
    \/ \E r \in ReqIds, pl \in {"return", "panic"} : Finish(r, pl)

\* cancellation, drain, listener failures, time
Lifecycle ==
    \/ Cancel
    \/ ServeShutdownBegin
    \/ ShutdownPollBusy
    \/ ShutdownPollIdle
    \/ ShutdownCloseError
    \/ ShutdownTimer
    \/ ShutdownDeadline
    \/ ServeReturn
    \/ PrimaryBindFail
    \/ PrimaryServeEnd
    \/ MetricsListen
    \/ MetricsFail
    \/ Tick

\* the caller's registrations, n at most, with templates from T
Register(T, n) ==
    /\ Len(routes) < n
    /\ \E t \in T :
          \/ Handle(t)
          \/ HandlePrefix(t)
          \/ HandleFunc(t)
          \/ HandleFuncPrefix(t)
          \/ AddOkHandler(t)

\* the clients' requests, n at most, for paths from P, with handlers that run
\* D ticks at most
Requests(P, n, D) ==
    /\ Len(req) < n
    /\ \E p \in P, m \in Methods, d \in 0..D : Accept(p, m, d)

\* the caller's grace durations, set before Serve() or, against the
\* documentation, while Serve() waits for the cancellation
Configure ==
    /\ graceUsed = -1
    /\ \E d \in 0..MaxGrace : SetGracefulShutdownDuration(d)

\* the caller's grace durations, set at any time, also when shutdownCtx
\* exists already
LateConfigure == \E d \in 0..MaxGrace : SetGracefulShutdownDuration(d)

\* every step, with few routes and requests
Next ==
    \/ Configure
    \/ Register(LifeTemplates, LifeRoutes)
    \/ Requests(LifePaths, LifeReq, MaxDur)
    \/ Program
    \/ Lifecycle

\* a server that runs undisturbed, with more routes and requests
RouteNext ==
    \/ Register(Templates, MaxRoutes)
    \/ Requests(ReqPaths, MaxReq, 0)
    \/ Program

\* the two handlers called on their own
DirectNext ==
    /\ Len(calls) < MaxReq
    /\ \/ \E w \in BOOLEAN : OkDirect(w)
       \/ \E rt \in DirectRoutes, pl \in {"return", "panic"} :
             TimerDirect(rt, PathASlashB, pl)

\* a Handler whose Serve() is called again after it returned
RestartNext ==
    \/ ServeStart
    \/ Len(old) + 1 < MaxServe /\ ServeAgain
    \/ PrimaryEnter
    \/ PrimaryBind
    \/ PrimaryBindFail
    \/ PrimaryServeEnd
    \/ MetricsListen
    \/ MetricsFail
    \/ \E i \in 1..Len(old), e \in {"ErrServerClosed", "listenError"} :
          OldPrimaryStep(i, e)
    \/ \E i \in 1..Len(old) : OldMetricsListen(i)
    \/ \E i \in 1..Len(old) : OldMetricsFail(i)
    \/ Cancel
    \/ ServeShutdownBegin
    \/ ShutdownPollBusy
    \/ ShutdownPollIdle
    \/ ShutdownCloseError
    \/ ShutdownTimer
    \/ ServeReturn
    \/ Tick
    \/ Requests(LifePaths, LifeReq, 0)
    \/ \E r \in ReqIds : Finish(r, "return")

\* a Handler whose grace duration is set at any time
GraceNext ==
    \/ LateConfigure
    \/ Requests(LifePaths, LifeReq, 0)
    \/ Program
    \/ Lifecycle

Spec == Init /\ [][Next]_vars

GraceSpec == Init /\ [][GraceNext]_vars

RestartSpec == Init /\ [][RestartNext]_vars

DirectSpec == Init /\ [][DirectNext]_vars

RouteSpec == Init /\ [][RouteNext]_vars

(* ------------------------------- claims -------------------------------- *)
\* the request was in flight when the cancellation fired and had less than
\* the grace duration left to run
ShortAtCancel(rq, g) == rq.remAtCancel # -1 /\ g # -1 /\ rq.remAtCancel < g

\* C1: a request in flight when the cancellation fires that needs less than
\* the grace duration to complete is never cut off by the drain (the expiry of
\* shutdownCtx never finds it still running), and Serve() does not return
\* before it has completed.
C1_DrainSparesShortRequests ==
    [][ /\ \A r \in ReqIds :
              Active(r) /\ ShortAtCancel(req[r], graceUsed)
                 => ~(fatalBy' = "shutdown" /\ shutErr' = "DeadlineExceeded")
        /\ servePc' = "returned"
              => \A r \in 1..Len(req') :
                    ShortAtCancel(req'[r], graceUsed') => req'[r].state = "done"
      ]_vars

\* C1 witness: Serve() has returned, and a request that still had a tick to run
\* when the cancellation fired, less than the grace duration, has completed.
C1_Witness ==
    /\ servePc = "returned"
    /\ \E r \in ReqIds :
          /\ req[r].remAtCancel >= 1
          /\ req[r].remAtCancel < graceUsed
          /\ req[r].state = "done"
          /\ req[r].status = 200

\* C2: during the drain the process is ended as fatal only when the shutdown
\* call fails of itself; the expiry of the grace deadline with requests still
\* in flight leads to Stopped, not to a fatal exit.
C2_DeadlineExpiryIsNotFatal ==
    fatalBy = "shutdown" => shutErr # "DeadlineExceeded"

\* C3: Serve() returns only after the cancellation has fired and the drain of
\* the primary server has ended: the server is shut down, no request is in
\* flight, and Shutdown returned no error.
C3_ServeReturnsAfterCancelAndDrain ==
    servePc = "returned" =>
        /\ ctxDone
        /\ inShutdown
        /\ AllIdle
        /\ shutErr = "nil"

\* C3 witness: Serve() has returned after a request was served.
C3_Witness ==
    /\ servePc = "returned"
    /\ \E r \in ReqIds : req[r].state = "done"

\* C4: a listener failure (bind or serve, primary or metrics) never leaves the
\* process alive, the metrics goroutine never ends without a fatal exit, and
\* the primary listener's ErrServerClosed, which only the shutdown produces,
\* is never fatal.
C4_ListenerFailureFatalClosedNot ==
    /\ fatalBy = "primary" => primErr \in {"listenError", "acceptError"}
    /\ fatalBy = "metrics" => metErr \in {"listenError", "acceptError"}
    /\ Alive => primErr \in {"nil", "ErrServerClosed"} /\ metErr = "nil"
    /\ Alive => metPc # "exited"
    /\ Alive /\ primErr = "ErrServerClosed" => inShutdown /\ primPc = "exited"

\* C4 witness: the cancellation was handled before the primary goroutine began
\* to listen; ListenAndServe returned ErrServerClosed without binding and the
\* process lives on.
C4_Witness ==
    /\ Alive
    /\ primPc = "exited"
    /\ primErr = "ErrServerClosed"
    /\ ~primBound

\* the request has been answered
Done(r) == req[r].state = "done"

\* some route registered through Handle, HandlePrefix, HandleFunc or
\* HandleFuncPrefix matches the path
UserRouteMatches(path) ==
    \E i \in 1..Len(routes) :
        routes[i].wrap = "timer" /\ RouteMatches(routes[i], path)

\* C5 as stated: a request to /_healthz, /_health or /up is answered by the
\* Health Responder with success and body "ok", whatever routes the caller
\* registered before Serve().
C5_DefaultPathsAlwaysOk ==
    \A r \in ReqIds :
        Done(r) /\ req[r].path \in DefaultPaths
            => req[r].status = 200 /\ req[r].body = "ok"

\* C5 amended: a request to /_healthz, /_health or /up is answered by the
\* Health Responder with success and body "ok", for any method, provided no
\* route the caller registered through Handle, HandlePrefix, HandleFunc or
\* HandleFuncPrefix matches that path.
C5_DefaultPathsOkUnlessShadowed ==
    \A r \in ReqIds :
        Done(r) /\ req[r].path \in DefaultPaths /\ ~UserRouteMatches(req[r].path)
            => req[r].status = 200 /\ req[r].body = "ok"

\* C5 witness: the caller registered a Timer route and a health route of its
\* own, none matching /up, and a request to /up was answered "ok".
C5_Witness ==
    /\ Len(routes) = 5
    /\ routes[1].wrap = "timer"
    /\ \E r \in ReqIds :
          /\ Done(r) /\ req[r].path = PathUp /\ req[r].route = 5
          /\ req[r].status = 200 /\ req[r].body = "ok"

\* C6: every request the primary listener has answered left exactly one
\* observation in the histogram.
C6_EveryRequestObserved ==
    BagCardinality(hist) = Cardinality({r \in ReqIds : Done(r)})

\* the observations the histogram holds under a label
RECURSIVE CountUpTo(_, _)
CountUpTo(l, v) ==
    IF v < 0 THEN 0 ELSE CopiesIn(<<l, v>>, hist) + CountUpTo(l, v - 1)

Observations(l) == CountUpTo(l, MaxDur)

\* the answered requests that a Timer route served and whose handler returned
Timed == {r \in ReqIds :
             /\ Done(r) /\ req[r].plan = "return"
             /\ req[r].route # 0
             /\ routes[req[r].route].wrap = "timer"}

\* C7: under every interleaving of the requests, the histogram entry of a
\* route template holds exactly one observation, each >= 0, for every
\* answered request that matched a Timer route of that template and whose
\* handler returned, whatever its raw path; no other entry is incremented.
C7_OneObservationPerTemplate ==
    /\ \A e \in BagToSet(hist) : e[2] \in 0..MaxDur
    /\ \A l \in {e[1] : e \in BagToSet(hist)}
                 \cup {routes[req[r].route].tpl : r \in Timed} :
          Observations(l) =
              Cardinality({r \in Timed : routes[req[r].route].tpl = l})

\* C7 witness: two requests with different raw paths matched the same
\* template, both handlers returned, and the entry holds two observations.
C7_Witness ==
    \E r1, r2 \in ReqIds :
        /\ r1 # r2 /\ Done(r1) /\ Done(r2)
        /\ req[r1].path # req[r2].path
        /\ req[r1].plan = "return" /\ req[r2].plan = "return"
        /\ req[r1].route # 0 /\ req[r2].route # 0
        /\ routes[req[r1].route].wrap = "timer"
        /\ routes[req[r1].route].tpl = routes[req[r2].route].tpl
        /\ routes[req[r2].route].wrap = "timer"
        /\ Observations(routes[req[r1].route].tpl) = 2

\* C8: a request whose handler panics is answered with status 500, and the
\* step that answers it leaves the process alive, the primary listener
\* listening and every other request as it was.
C8_PanicContained ==
    [][ \A r \in ReqIds :
            Active(r) /\ Len(req') = Len(req) /\ req'[r].plan = "panic"
               => /\ req'[r].state = "done"
                  /\ req'[r].status = 500
                  /\ proc' = "running"
                  /\ primPc' = primPc /\ inShutdown' = inShutdown
                  /\ \A q \in ReqIds \ {r} : req'[q] = req[q]
      ]_vars

\* C8 witness: a request was answered 500 after its handler panicked, and a
\* request accepted after it was served by the still running listener.
C8_Witness ==
    /\ Alive /\ primPc = "serving"
    /\ \E r1, r2 \in ReqIds :
          /\ r1 < r2
          /\ Done(r1) /\ req[r1].plan = "panic" /\ req[r1].status = 500
          /\ Done(r2) /\ req[r2].status = 200

\* the grace duration configured before Serve()
ConfiguredGrace == IF setBefore = -1 THEN DefaultGrace ELSE setBefore

\* C9 as stated: the timeout of the drain is 2 when
\* SetGracefulShutdownDuration was never called, and d when
\* SetGracefulShutdownDuration(d) was the last call before Serve().
C9_DeadlineIsGraceSetBeforeServe ==
    graceUsed # -1 => graceUsed = ConfiguredGrace

\* C9 amended: the timeout of the drain is 2 when
\* SetGracefulShutdownDuration was never called, and d when
\* SetGracefulShutdownDuration(d) was the last call before Serve() and none
\* followed between Serve() starting and Serve() observing the cancellation;
\* construction starts no listener.
C9_DeadlineIsGraceUnlessSetDuringServe ==
    /\ graceUsed # -1 /\ ~setDuring => graceUsed = ConfiguredGrace
    /\ servePc = "init" =>
          primPc = "none" /\ metPc = "none" /\ ~primBound /\ req = << >>

\* C9 witness: the drain runs with a timeout other than the default, set
\* before Serve().
C9_Witness ==
    /\ graceUsed # -1 /\ ~setDuring
    /\ setBefore # -1 /\ setBefore # DefaultGrace
    /\ graceUsed = setBefore

\* the registered routes that match the path
Hits(path) == {i \in 1..Len(routes) : RouteMatches(routes[i], path)}

\* C10 as stated: a request whose path matches a route registered through
\* Handle or HandlePrefix reaches the handler registered for that route.
C10_EveryMatchingRouteReached ==
    \A r \in ReqIds : \A i \in Hits(req[r].path) :
        routes[i].wrap = "timer" => req[r].route = i

\* C10 amended: a request whose path matches registered routes reaches the
\* handler of the first registered of them, and a request whose path matches
\* no registered route reaches none of the registered handlers.
C10_FirstMatchingRouteReached ==
    \A r \in ReqIds :
        LET hits == Hits(req[r].path)
            rt == req[r].route
        IN IF hits = {}
           THEN rt = 0 /\ (Done(r) => req[r].status = 404)
           ELSE /\ rt \in hits
                /\ \A j \in hits : rt <= j
                /\ Done(r) /\ req[r].plan = "return"
                      => req[r].body =
                            (IF routes[rt].wrap = "timer" THEN "user" ELSE "ok")

\* C10 witness: two registered Timer routes match the request's path and the
\* request was served by the first.
C10_Witness ==
    \E r \in ReqIds :
        /\ Done(r) /\ req[r].route = 1 /\ req[r].body = "user"
        /\ 2 \in Hits(req[r].path)
        /\ routes[1].wrap = "timer" /\ routes[2].wrap = "timer"
        /\ routes[1] # routes[2]

\* C11: when the OkHandler fails to write its body, the failure is logged at
\* debug severity and nothing else happens: the handler returns without a
\* panic, nothing was written, and the process lives on.
C11_OkWriteFailureOnlyLogged ==
    \A c \in 1..Len(calls) :
        calls[c].handler = "ok" /\ ~calls[c].writeOk
            => /\ ~calls[c].panicked
               /\ calls[c].log = "debug"
               /\ calls[c].body = ""
               /\ Alive

\* C11 witness: a write of the OkHandler failed, and the handler served a
\* later request with success.
C11_Witness ==
    \E c1, c2 \in 1..Len(calls) :
        /\ c1 < c2
        /\ calls[c1].handler = "ok" /\ ~calls[c1].writeOk
        /\ calls[c1].log = "debug"
        /\ calls[c2].handler = "ok" /\ calls[c2].body = "ok"

\* C12: the wait of Serve() in the drain ends the moment no request is in
\* flight any more: once Shutdown has returned without error, Serve() can
\* return, whether or not the grace period has elapsed.
C12_ServeReturnsOnceDrained ==
    servePc = "waitDeadline" => ENABLED ServeReturn

\* the lifecycle state of the coordinator: 0 Initialized, 1 Starting,
\* 2 Running, 3 Draining, 4 Stopped, 5 ended by a fatal exit
Phase ==
    CASE servePc = "init" -> 0
      [] servePc = "waitCtx" -> IF primPc = "serving" THEN 2 ELSE 1
      [] servePc \in {"shutdownPoll", "shutdownWait", "waitDeadline"} -> 3
      [] servePc = "returned" -> 4
      [] OTHER -> 5

\* C13: the lifecycle only moves forward; the cancellation, once fired, stays
\* fired; and from Draining on the primary server accepts no request and is
\* shut down for good.
C13_LifecycleOnlyForward ==
    [][ /\ Phase' >= Phase
        /\ ctxDone /\ proc' = "running" => ctxDone'
        /\ Phase >= 3 => Len(req') <= Len(req)
        /\ Phase >= 3 /\ proc' = "running" => inShutdown'
      ]_vars

\* C13 witness: the drain has begun while the accept loop of the primary
\* goroutine has not ended yet, after a request was served and with clients
\* left that would send one.
C13_Witness ==
    /\ Phase = 3
    /\ primPc = "serving"
    /\ \E r \in ReqIds : Done(r)

\* where a handler is entered and where it is left in the trace of a request
Entered(tr, h) == {i \in 1..Len(tr) : tr[i] = <<"enter", h>>}
Left(tr, h) == {i \in 1..Len(tr) : tr[i] \in {<<"leave", h>>, <<"panic", h>>}}
Observed(tr) == {i \in 1..Len(tr) : tr[i] = <<"observe", "timer">>}

\* C14: a request to a route registered through Handle, HandlePrefix,
\* HandleFunc or HandleFuncPrefix enters the recovery wrapper, then the Timer,
\* then the user handler, each once, and leaves them in the reverse order;
\* when the user handler returns, the single observation is made after it
\* returned and its value is the whole run time of the user handler.
C14_RecoveryThenTimerThenHandler ==
    \A r \in ReqIds :
        Done(r) /\ UserHandled(req[r]) =>
            LET tr == req[r].trace
            IN /\ \A h \in {"recovery", "timer", "user"} :
                     Cardinality(Entered(tr, h)) = 1 /\ Cardinality(Left(tr, h)) = 1
               /\ \A a \in Entered(tr, "recovery"), b \in Entered(tr, "timer"),
                     c \in Entered(tr, "user"), d \in Left(tr, "user"),
                     e \in Left(tr, "timer"), f \in Left(tr, "recovery") :
                        a < b /\ b < c /\ c < d /\ d < e /\ e < f
               /\ req[r].plan = "return" =>
                     /\ Cardinality(Observed(tr)) = 1
                     /\ \A d \in Left(tr, "user"), o \in Observed(tr),
                           e \in Left(tr, "timer") : d < o /\ o < e
                     /\ CopiesIn(<<routes[req[r].route].tpl, req[r].dur>>, hist) >= 1

\* C14 witness: a user handler that ran for a tick has returned, and the
\* request passed recovery wrapper, Timer and handler.
C14_Witness ==
    \E r \in ReqIds :
        /\ Done(r) /\ UserHandled(req[r])
        /\ req[r].plan = "return" /\ req[r].dur >= 1
        /\ Len(req[r].trace) = 7
        /\ CopiesIn(<<routes[req[r].route].tpl, req[r].dur>>, hist) = 1

\* C15: the cancellation and the drain leave the metrics listener as it is:
\* no step of Serve() from the cancellation to its return changes the state of
\* the metrics goroutine, and when Serve() returns the metrics server has not
\* been stopped (it serves if it had bound).
C15_DrainLeavesMetricsAlone ==
    [][ /\ (ctxDone' # ctxDone \/ servePc' # servePc)
              /\ servePc # "init" /\ proc' = "running"
           => metPc' = metPc /\ metErr' = metErr
        /\ servePc' = "returned"
           => metPc' \in {"spawned", "serving"} /\ metErr' = "nil"
      ]_vars

\* C15 witness: Serve() has returned, the primary goroutine has ended, and the
\* metrics server, which had bound, serves.
C15_Witness ==
    /\ servePc = "returned"
    /\ primPc = "exited"
    /\ metPc = "serving"

\* C16: once a Serve() call has returned and Serve() is called again, the
\* primary listener never serves again and no request is accepted any more.
C16_NoRestart ==
    [][ old' # << >> =>
            /\ primPc' # "serving"
            /\ Len(req') <= Len(req)
            /\ proc' = "running" => inShutdown'
      ]_vars

\* C16 witness: a second Serve() call has run to its return; its primary
\* goroutine ended with ErrServerClosed, and clients were left that would
\* have sent a request.
C16_Witness ==
    /\ old # << >>
    /\ servePc = "returned"
    /\ primPc = "exited" /\ primErr = "ErrServerClosed"
    /\ Len(req) < LifeReq

\* C17: a Timer serving a request for which no route template resolves (no
\* matched route, or a matched route without a path template) does not fail:
\* it uses the empty label, calls the delegate once, and records one
\* observation when the delegate returns.
C17_TimerToleratesNoTemplate ==
    \A c \in 1..Len(calls) :
        calls[c].handler = "timer" /\ calls[c].route.mode \in {"nil", "nopath"}
            => /\ calls[c].label = << >>
               /\ calls[c].delegated = 1
               /\ calls[c].plan = "return"
                     => ~calls[c].panicked /\ calls[c].observed

C19_DeadlineReadAtCancellation ==
    [][ /\ servePc = "waitCtx" /\ servePc' = "shutdownPoll"
           => graceUsed' = grace /\ dleft' = grace
        /\ graceUsed # -1 /\ proc' = "running"
           => graceUsed' = graceUsed /\ dleft' \in {dleft, dleft - 1}
      ]_vars

\* C19 witness: Serve() has returned from a drain whose timeout was set while
\* Serve() waited, other than the one set before Serve(), and the grace field
\* was set to yet another value after the timeout was computed.
C19_Witness ==
    /\ servePc = "returned"
    /\ setDuring
    /\ graceUsed # ConfiguredGrace
    /\ grace # graceUsed

====
